---- MODULE Spec2Model ----
(***************************************************************************)
(* Model of the Streamlit front end (src/streamlit_web_app/app.py) and the *)
(* remote inference handler (src/inference/inference.py).                  *)
(*                                                                         *)
(* Every browser session runs the script of app.py; all sessions share the *)
(* working directory (tmp/request_payloads/payload.json,                   *)
(* tmp/response_output.json, frames_out/) and the single S3 input key      *)
(* async_inference/input/payload.json.                                     *)
(***************************************************************************)
EXTENDS Integers, Sequences, FiniteSets, TLC

VARIABLES
    widget,            \* per session: the file held by st.file_uploader
    uploaded_image,    \* st.session_state["uploaded_image"]
    num_frames,        \* st.session_state["num_frames"]
    pc,                \* per session: position inside handle_video_creation
    runs,              \* per session: number of presses of Create Video
    stages,            \* per session: stages invoked by the current run, in order
    failed_stage,      \* per session: stage of the current run that raised / returned False
    message,           \* per session: st.success("Video created: ...") was shown
    data_built,        \* per session: `data` dict of invoke_model
    data_uploaded,     \* per session: document upload_file put under the S3 key
    request_payload,   \* shared local file REQUEST_PAYLOAD
    s3_input,          \* shared S3 object async_inference/input/payload.json
    job_input,         \* per session: request the remote job of the run has read
    job_state,         \* per session: "none" | "submitted" | "read"
    out_obj,           \* per session: object at the run's OutputLocation
    fail_obj,          \* per session: object at the run's FailureLocation
    head_res,          \* per session: result of head_object in this iteration
    dl_res,            \* per session: result of download_file in this iteration
    fail_res,          \* per session: result of download_fileobj in this iteration
    poll_ret,          \* per session: outcome of get_model_response
    elapsed,           \* per session: seconds slept by the poller since submission
    downloaded,        \* per session: document the poller downloaded
    response_payload,  \* shared local file RESPONSE_PAYLOAD
    decoded,           \* per session: document process_video_frames loaded
    frames_out,        \* shared directory frames_out/: file name -> bytes
    video              \* per session: frames the encoder consumed, in glob order

vars == <<widget, uploaded_image, num_frames, pc, runs, stages, failed_stage,
          message, data_built, data_uploaded, request_payload, s3_input,
          job_input, job_state, out_obj, fail_obj, head_res, dl_res, fail_res,
          poll_ret, elapsed, downloaded, response_payload, decoded,
          frames_out, video>>

uiVars == <<widget, uploaded_image, num_frames, runs>>
runVars == <<stages, failed_stage, message>>
reqVars == <<data_built, data_uploaded, request_payload, s3_input>>
jobVars == <<job_input, job_state, out_obj, fail_obj>>
pollVars == <<head_res, dl_res, fail_res, poll_ret, elapsed, downloaded,
              response_payload>>
frameVars == <<decoded, frames_out, video>>

----------------------------------------------------------------------------
(* Bounds of the model *)

MaxRuns == 2            \* presses of Create Video in SpecSingle
MaxRunFrames == 2       \* largest num_frames the user enters in SpecSingle
RunHorizon == 30        \* the poller's clock saturates here in SpecSingle
ConcurrentRuns == 1     \* presses of Create Video per session in Spec
ConcurrentFrames == 1   \* largest num_frames a user enters in Spec
ConcurrentHorizon == 15 \* the poller's clock saturates here in Spec
TimeoutRuns == 1        \* presses of Create Video in SpecTimeout
TimeoutFrames == 1      \* largest num_frames the user enters in SpecTimeout
MaxElapsed == 3630      \* the poller's clock saturates here in SpecTimeout
MaxFrames == 100        \* largest frame count of a result document in SpecFrames

(* Program constants *)

MAX_FILE_SIZE == 5 * 1024 * 1024
POLL_DELAY == 15
InvocationTimeoutSeconds == 3600
FRAME_PAD == 2

Sessions == {1, 2}

Min(a, b) == IF a < b THEN a ELSE b

----------------------------------------------------------------------------
(* Values *)

NoFile == [name |-> "none", size |-> 0]
SmallFile == [name |-> "a", size |-> MAX_FILE_SIZE]
LargeFile == [name |-> "b", size |-> MAX_FILE_SIZE + 1]

NoPayload == [sess |-> 0, run |-> 0, image |-> "none", num_frames |-> 0]
NoDoc == [frames |-> <<>>, config |-> NoPayload]
NoObject == [present |-> FALSE]
NoDir == [n \in {} |-> 0]

PIPELINE == <<"upload", "submit", "poll", "decode", "assemble">>
PollingPcs == {"head", "download", "fail_check", "sleep"}

b64encode(x) == [b64 |-> x]
b64decode(e) == e.b64

(* predict_fn: one base64 JPEG per generated frame, and the echoed config *)
predict_fn(data) ==
    [frames |-> [i \in 1..data.num_frames |->
                    b64encode(<<data.sess, data.run, i>>)],
     config |-> [data EXCEPT !.image = "none"]]

----------------------------------------------------------------------------
(* File names of frames_out/ and the encoder's glob *)

RECURSIVE Digits(_)
Digits(n) == IF n < 10 THEN <<n>> ELSE Append(Digits(n \div 10), n % 10)

(* format(n, "0w"): zero padded to a minimum width of w, never truncated *)
ZeroPad(n, w) ==
    LET d == Digits(n)
    IN  [i \in 1..(IF Len(d) < w THEN w - Len(d) ELSE 0) |-> 0] \o d

(* f"frames_out/frame_{idx+1:02}.jpg", as character codes; idx counts from 0 *)
frame_name(idx) ==
    <<102, 114, 97, 109, 101, 95>>
        \o [i \in 1..Len(ZeroPad(idx + 1, FRAME_PAD)) |->
                48 + ZeroPad(idx + 1, FRAME_PAD)[i]]
        \o <<46, 106, 112, 103>>

(* byte-wise order of two file names, as glob(3) sorts in the C locale *)
LexLess(a, b) ==
    \E k \in 1..(Min(Len(a), Len(b)) + 1) :
        /\ \A i \in 1..(k - 1) : a[i] = b[i]
        /\ \/ k > Len(a) /\ k <= Len(b)
           \/ k <= Len(a) /\ k <= Len(b) /\ a[k] < b[k]

(* the number of names that sort before each name *)
Rank(names) ==
    [n \in names |-> Cardinality({m \in names : LexLess(m, n)})]

(* the names in ascending order *)
Sorted(names, rank) ==
    [i \in 1..Cardinality(names) |-> CHOOSE n \in names : rank[n] = i - 1]

The(S) == CHOOSE x \in S : TRUE

(* the files matched by frames_out/*.jpg, sorted (the singleton sets bind each
   intermediate value once) *)
glob(dir) ==
    The({ The({ Sorted(names, rank) : rank \in {Rank(names)} }) :
            names \in {DOMAIN dir} })

(* process_video_frames: the files one result document writes *)
frame_files(data) ==
    LET name == [idx \in 0..(Len(data.frames) - 1) |-> frame_name(idx)]
    IN  [n \in {name[idx] : idx \in DOMAIN name} |->
            b64decode(data.frames[(CHOOSE j \in DOMAIN name : name[j] = n) + 1])]

write_files(dir, new) ==
    [n \in DOMAIN dir \cup DOMAIN new |->
        IF n \in DOMAIN new THEN new[n] ELSE dir[n]]

----------------------------------------------------------------------------
(* Responses of S3 *)

ClientErrorCodes == {"404", "NoSuchKey", "403"}

(* what a head/get of an object can answer: the bytes, a ClientError code, or
   an exception that is no ClientError *)
S3Responses(obj) ==
    IF obj.present THEN {"ok", "403", "EndpointConnectionError"}
    ELSE {"404", "NoSuchKey", "403", "EndpointConnectionError"}

(* a handler that takes every error of the success check for "not found" *)
success_handler_swallow(r) == "fail_check"

(* the except clause around the success check: a ClientError whose code is
   NoSuchKey or 404 goes on to the failure artifact, anything else is raised *)
success_handler(r) ==
    IF r \in ClientErrorCodes /\ r \in {"NoSuchKey", "404"}
    THEN "fail_check" ELSE "raise"

(* a success check that consults the failure artifact before returning *)
after_download_failure_first(r) ==
    IF r = "ok" THEN "fail_check" ELSE success_handler(r)

(* head_object answered r *)
after_head(r) == IF r = "ok" THEN "download" ELSE success_handler(r)

(* download_file answered r *)
after_download(r) == IF r = "ok" THEN "return_true" ELSE success_handler(r)

(* an inner try that never returns False *)
failure_handler_keep_waiting(r) == "sleep"

(* the inner try around the failure artifact: return False when the blob was
   read, `pass` on any exception *)
failure_handler(r) == IF r = "ok" THEN "return_false" ELSE "sleep"

(* a caller that ignores the value of get_model_response *)
after_poll_unconditional(ret) == "decode"

(* if get_model_response(response): ... *)
after_poll(ret) == IF ret THEN "decode" ELSE "idle"

----------------------------------------------------------------------------
(* Initial state: the session_state defaults of reset_session_states, empty
   working directory, nothing staged. *)

Init ==
    /\ widget = [s \in Sessions |-> NoFile]
    /\ uploaded_image = [s \in Sessions |-> NoFile]
    /\ num_frames = [s \in Sessions |-> 1]
    /\ pc = [s \in Sessions |-> "idle"]
    /\ runs = [s \in Sessions |-> 0]
    /\ stages = [s \in Sessions |-> <<>>]
    /\ failed_stage = [s \in Sessions |-> "none"]
    /\ message = [s \in Sessions |-> FALSE]
    /\ data_built = [s \in Sessions |-> NoPayload]
    /\ data_uploaded = [s \in Sessions |-> NoPayload]
    /\ request_payload = NoPayload
    /\ s3_input = NoPayload
    /\ job_input = [s \in Sessions |-> NoPayload]
    /\ job_state = [s \in Sessions |-> "none"]
    /\ out_obj = [s \in Sessions |-> NoObject]
    /\ fail_obj = [s \in Sessions |-> NoObject]
    /\ head_res = [s \in Sessions |-> "none"]
    /\ dl_res = [s \in Sessions |-> "none"]
    /\ fail_res = [s \in Sessions |-> "none"]
    /\ poll_ret = [s \in Sessions |-> "none"]
    /\ elapsed = [s \in Sessions |-> 0]
    /\ downloaded = [s \in Sessions |-> NoDoc]
    /\ response_payload = NoDoc
    /\ decoded = [s \in Sessions |-> NoDoc]
    /\ frames_out = NoDir
    /\ video = [s \in Sessions |-> <<>>]

----------------------------------------------------------------------------
(* The script's widgets *)

(* handle_file_upload: what one script run stores for the file in the widget *)
handle_file_upload(s, f) ==
    IF f # NoFile /\ ~(f.size > MAX_FILE_SIZE)
    THEN uploaded_image' = [uploaded_image EXCEPT ![s] = f]
    ELSE UNCHANGED uploaded_image

(* the user picks a file, or clears the uploader; the script reruns without
   the button pressed *)
UserUpload(s, files) ==
    /\ pc[s] = "idle"
    /\ \E f \in files \cup {NoFile} :
        /\ f # widget[s]
        /\ widget' = [widget EXCEPT ![s] = f]
        /\ handle_file_upload(s, f)
    /\ UNCHANGED <<num_frames, pc, runs>>
    /\ UNCHANGED <<runVars, reqVars, jobVars, pollVars, frameVars>>

(* the exception of a stage leaves handle_video_creation *)
Raise(s, stage) ==
    /\ pc' = [pc EXCEPT ![s] = "idle"]
    /\ failed_stage' = [failed_stage EXCEPT ![s] = stage]

(* the user sets Number of Frames and presses Create Video: the script reruns
   (handle_file_upload first), then invoke_model opens the image, builds
   `data` and writes REQUEST_PAYLOAD *)
PressCreate(s, max_runs, max_frames) ==
    /\ pc[s] = "idle"
    /\ runs[s] < max_runs
    /\ runs' = [runs EXCEPT ![s] = @ + 1]
    /\ \E n \in 1..max_frames : num_frames' = [num_frames EXCEPT ![s] = n]
    /\ handle_file_upload(s, widget[s])
    /\ stages' = [stages EXCEPT ![s] = <<>>]
    /\ message' = [message EXCEPT ![s] = FALSE]
    /\ data_uploaded' = [data_uploaded EXCEPT ![s] = NoPayload]
    /\ job_input' = [job_input EXCEPT ![s] = NoPayload]
    /\ job_state' = [job_state EXCEPT ![s] = "none"]
    /\ out_obj' = [out_obj EXCEPT ![s] = NoObject]
    /\ fail_obj' = [fail_obj EXCEPT ![s] = NoObject]
    /\ head_res' = [head_res EXCEPT ![s] = "none"]
    /\ dl_res' = [dl_res EXCEPT ![s] = "none"]
    /\ fail_res' = [fail_res EXCEPT ![s] = "none"]
    /\ poll_ret' = [poll_ret EXCEPT ![s] = "none"]
    /\ elapsed' = [elapsed EXCEPT ![s] = 0]
    /\ downloaded' = [downloaded EXCEPT ![s] = NoDoc]
    /\ decoded' = [decoded EXCEPT ![s] = NoDoc]
    /\ video' = [video EXCEPT ![s] = <<>>]
    /\ IF uploaded_image'[s] = NoFile
       THEN \* Image.open(None) raises
            /\ Raise(s, "build")
            /\ data_built' = [data_built EXCEPT ![s] = NoPayload]
            /\ UNCHANGED request_payload
       ELSE LET data == [sess |-> s, run |-> runs'[s],
                         image |-> uploaded_image'[s].name,
                         num_frames |-> num_frames'[s]]
            IN  /\ data_built' = [data_built EXCEPT ![s] = data]
                /\ request_payload' = data
                /\ pc' = [pc EXCEPT ![s] = "upload"]
                /\ failed_stage' = [failed_stage EXCEPT ![s] = "none"]
    /\ UNCHANGED <<widget, s3_input, response_payload, frames_out>>

(* upload_file(REQUEST_PAYLOAD): puts the local file under the fixed key *)
upload_file(s) ==
    /\ pc[s] = "upload"
    /\ stages' = [stages EXCEPT ![s] = Append(@, "upload")]
    /\ \E ok \in BOOLEAN :
        IF ok
        THEN /\ s3_input' = request_payload
             /\ data_uploaded' = [data_uploaded EXCEPT ![s] = request_payload]
             /\ pc' = [pc EXCEPT ![s] = "submit"]
             /\ UNCHANGED failed_stage
        ELSE /\ Raise(s, "upload")
             /\ UNCHANGED <<s3_input, data_uploaded>>
    /\ UNCHANGED <<uiVars, message, data_built, request_payload>>
    /\ UNCHANGED <<jobVars, pollVars, frameVars>>

(* invoke_endpoint_async(InputLocation=<the fixed key>,
   InvocationTimeoutSeconds=3600): the job is accepted, or the call raises *)
invoke_endpoint_async(s) ==
    /\ pc[s] = "submit"
    /\ stages' = [stages EXCEPT ![s] = Append(@, "submit")]
    /\ \E ok \in BOOLEAN :
        IF ok
        THEN /\ job_state' = [job_state EXCEPT ![s] = "submitted"]
             /\ pc' = [pc EXCEPT ![s] = "poll"]
             /\ UNCHANGED failed_stage
        ELSE /\ Raise(s, "submit")
             /\ UNCHANGED job_state
    /\ UNCHANGED <<uiVars, message, reqVars, job_input, out_obj, fail_obj>>
    /\ UNCHANGED <<pollVars, frameVars>>

----------------------------------------------------------------------------
(* The remote endpoint *)

(* the endpoint fetches the request from the InputLocation *)
job_read_input(s) ==
    /\ job_state[s] = "submitted"
    /\ job_state' = [job_state EXCEPT ![s] = "read"]
    /\ job_input' = [job_input EXCEPT ![s] = s3_input]
    /\ UNCHANGED <<out_obj, fail_obj>>
    /\ UNCHANGED <<uiVars, pc, runVars, reqVars, pollVars, frameVars>>

(* predict_fn returns: the result document appears at the OutputLocation *)
job_succeed(s) ==
    /\ job_state[s] = "read"
    /\ ~out_obj[s].present
    /\ out_obj' = [out_obj EXCEPT ![s] =
                      [present |-> TRUE, doc |-> predict_fn(job_input[s])]]
    /\ UNCHANGED <<job_input, job_state, fail_obj>>
    /\ UNCHANGED <<uiVars, pc, runVars, reqVars, pollVars, frameVars>>

(* the invocation fails: an error blob appears at the FailureLocation *)
job_fail(s) ==
    /\ job_state[s] \in {"submitted", "read"}
    /\ ~fail_obj[s].present
    /\ fail_obj' = [fail_obj EXCEPT ![s] = [present |-> TRUE]]
    /\ UNCHANGED <<job_input, job_state, out_obj>>
    /\ UNCHANGED <<uiVars, pc, runVars, reqVars, pollVars, frameVars>>

----------------------------------------------------------------------------
(* get_model_response *)

(* entry: the two locations of the response are parsed, the client is made *)
get_model_response(s) ==
    /\ pc[s] = "poll"
    /\ stages' = [stages EXCEPT ![s] = Append(@, "poll")]
    /\ pc' = [pc EXCEPT ![s] = "head"]
    /\ UNCHANGED <<uiVars, failed_stage, message, reqVars, jobVars, pollVars,
                   frameVars>>

(* where the loop goes after a success check that did not return True *)
SuccessCheckGoto(s, target) ==
    IF target = "raise"
    THEN /\ Raise(s, "poll")
         /\ poll_ret' = [poll_ret EXCEPT ![s] = "raised"]
    ELSE /\ pc' = [pc EXCEPT ![s] = target]
         /\ UNCHANGED <<poll_ret, failed_stage>>

(* s3_client.head_object(Bucket=bucket, Key=key) *)
head_object(s) ==
    /\ pc[s] = "head"
    /\ \E r \in S3Responses(out_obj[s]) :
        /\ head_res' = [head_res EXCEPT ![s] = r]
        /\ SuccessCheckGoto(s, after_head(r))
    /\ UNCHANGED <<dl_res, fail_res, elapsed, downloaded, response_payload>>
    /\ UNCHANGED <<uiVars, stages, message, reqVars, jobVars, frameVars>>

(* s3_client.download_file(..., Filename=RESPONSE_PAYLOAD); return True *)
download_file(s) ==
    /\ pc[s] = "download"
    /\ \E r \in S3Responses(out_obj[s]) :
        /\ dl_res' = [dl_res EXCEPT ![s] = r]
        /\ IF r = "ok"
           THEN /\ response_payload' = out_obj[s].doc
                /\ downloaded' = [downloaded EXCEPT ![s] = out_obj[s].doc]
           ELSE UNCHANGED <<response_payload, downloaded>>
        /\ IF after_download(r) = "return_true"
           THEN /\ poll_ret' = [poll_ret EXCEPT ![s] = "True"]
                /\ pc' = [pc EXCEPT ![s] = after_poll(TRUE)]
                /\ UNCHANGED failed_stage
           ELSE SuccessCheckGoto(s, after_download(r))
    /\ UNCHANGED <<head_res, fail_res, elapsed>>
    /\ UNCHANGED <<uiVars, stages, message, reqVars, jobVars, frameVars>>

(* s3_client.download_fileobj(Bucket=failure_bucket, Key=failure_key, ...):
   return False when it answers, `pass` on any exception *)
download_fileobj(s) ==
    /\ pc[s] = "fail_check"
    /\ \E r \in S3Responses(fail_obj[s]) :
        /\ fail_res' = [fail_res EXCEPT ![s] = r]
        /\ IF failure_handler(r) = "return_false"
           THEN /\ poll_ret' = [poll_ret EXCEPT ![s] = "False"]
                /\ pc' = [pc EXCEPT ![s] = after_poll(FALSE)]
                /\ failed_stage' = [failed_stage EXCEPT ![s] = "poll"]
           ELSE /\ pc' = [pc EXCEPT ![s] = "sleep"]
                /\ UNCHANGED <<poll_ret, failed_stage>>
    /\ UNCHANGED <<head_res, dl_res, elapsed, downloaded, response_payload>>
    /\ UNCHANGED <<uiVars, stages, message, reqVars, jobVars, frameVars>>

(* time.sleep(15); continue.  The clock of the model saturates at cap. *)
time_sleep(s, cap) ==
    /\ pc[s] = "sleep"
    /\ elapsed' = [elapsed EXCEPT ![s] =
                      IF @ + POLL_DELAY > cap THEN @ ELSE @ + POLL_DELAY]
    /\ head_res' = [head_res EXCEPT ![s] = "none"]
    /\ dl_res' = [dl_res EXCEPT ![s] = "none"]
    /\ fail_res' = [fail_res EXCEPT ![s] = "none"]
    /\ pc' = [pc EXCEPT ![s] = "head"]
    /\ UNCHANGED <<poll_ret, downloaded, response_payload>>
    /\ UNCHANGED <<uiVars, runVars, reqVars, jobVars, frameVars>>

----------------------------------------------------------------------------
(* Frames and video *)

(* process_video_frames: load RESPONSE_PAYLOAD, write one file per frame *)
process_video_frames(s) ==
    /\ pc[s] = "decode"
    /\ stages' = [stages EXCEPT ![s] = Append(@, "decode")]
    /\ \E ok \in BOOLEAN :
        IF ok
        THEN /\ decoded' = [decoded EXCEPT ![s] = response_payload]
             /\ frames_out' = write_files(frames_out,
                                          frame_files(response_payload))
             /\ pc' = [pc EXCEPT ![s] = "assemble"]
             /\ UNCHANGED failed_stage
        ELSE /\ Raise(s, "decode")
             /\ UNCHANGED <<decoded, frames_out>>
    /\ UNCHANGED <<uiVars, message, reqVars, jobVars, pollVars, video>>

(* convert_frames_to_video: ffmpeg over the glob frames_out/*.jpg, then
   st.success(f"Video created: {video_path}") *)
convert_frames_to_video(s) ==
    /\ pc[s] = "assemble"
    /\ stages' = [stages EXCEPT ![s] = Append(@, "assemble")]
    /\ \E ok \in BOOLEAN :
        IF ok
        THEN /\ \E input \in {glob(frames_out)} :
                    video' = [video EXCEPT ![s] =
                                 [i \in 1..Len(input) |-> frames_out[input[i]]]]
             /\ message' = [message EXCEPT ![s] = TRUE]
             /\ pc' = [pc EXCEPT ![s] = "idle"]
             /\ UNCHANGED failed_stage
        ELSE /\ Raise(s, "assemble")
             /\ UNCHANGED <<video, message>>
    /\ UNCHANGED <<uiVars, reqVars, jobVars, pollVars, decoded, frames_out>>

----------------------------------------------------------------------------
(* Specifications *)

Next(SS, sc) ==
    \E s \in SS :
        \/ UserUpload(s, sc.files)
        \/ PressCreate(s, sc.runs, sc.frames)
        \/ upload_file(s)
        \/ invoke_endpoint_async(s)
        \/ job_read_input(s)
        \/ job_succeed(s)
        \/ job_fail(s)
        \/ get_model_response(s)
        \/ head_object(s)
        \/ download_file(s)
        \/ download_fileobj(s)
        \/ time_sleep(s, sc.cap)
        \/ process_video_frames(s)
        \/ convert_frames_to_video(s)

(* two browser sessions of the app, each with an accepted image at hand *)
Concurrent == [cap |-> ConcurrentHorizon, runs |-> ConcurrentRuns,
               frames |-> ConcurrentFrames, files |-> {SmallFile}]

Spec == Init /\ [][Next(Sessions, Concurrent)]_vars

(* one browser session that uploads accepted and oversize images and
   creates several videos one after the other *)
Single == [cap |-> RunHorizon, runs |-> MaxRuns, frames |-> MaxRunFrames,
           files |-> {SmallFile, LargeFile}]

SpecSingle == Init /\ [][Next({1}, Single)]_vars

(* one browser session whose poller's clock runs past the invocation
   timeout *)
Timeout == [cap |-> MaxElapsed, runs |-> TimeoutRuns,
            frames |-> TimeoutFrames, files |-> {SmallFile}]

SpecTimeout == Init /\ [][Next({1}, Timeout)]_vars

(* a result document of n frames has been downloaded by session 1 and
   frames_out/ is empty: the state before process_video_frames *)
InitFrames ==
    \E n \in 1..MaxFrames :
        LET data == [sess |-> 1, run |-> 1, image |-> SmallFile.name,
                     num_frames |-> n]
            doc == predict_fn(data)
            At1(x, d) == [s \in Sessions |-> IF s = 1 THEN x ELSE d]
        IN  /\ widget = At1(SmallFile, NoFile)
            /\ uploaded_image = At1(SmallFile, NoFile)
            /\ num_frames = At1(n, 1)
            /\ pc = At1(after_poll(TRUE), "idle")
            /\ runs = At1(1, 0)
            /\ stages = At1(<<"upload", "submit", "poll">>, <<>>)
            /\ failed_stage = [s \in Sessions |-> "none"]
            /\ message = [s \in Sessions |-> FALSE]
            /\ data_built = At1(data, NoPayload)
            /\ data_uploaded = At1(data, NoPayload)
            /\ request_payload = data
            /\ s3_input = data
            /\ job_input = At1(data, NoPayload)
            /\ job_state = At1("read", "none")
            /\ out_obj = At1([present |-> TRUE, doc |-> doc], NoObject)
            /\ fail_obj = [s \in Sessions |-> NoObject]
            /\ head_res = At1("ok", "none")
            /\ dl_res = At1("ok", "none")
            /\ fail_res = [s \in Sessions |-> "none"]
            /\ poll_ret = At1("True", "none")
            /\ elapsed = [s \in Sessions |-> 0]
            /\ downloaded = At1(doc, NoDoc)
            /\ response_payload = doc
            /\ decoded = [s \in Sessions |-> NoDoc]
            /\ frames_out = NoDir
            /\ video = [s \in Sessions |-> <<>>]

NextFrames == process_video_frames(1) \/ convert_frames_to_video(1)

(* decoding and assembling result documents of 1..MaxFrames frames *)
SpecFrames == InitFrames /\ [][NextFrames]_vars

----------------------------------------------------------------------------
(* Properties *)

NotFoundCodes == {"404", "NoSuchKey"}
HardErrors == {"403", "EndpointConnectionError"}

IsPrefix(a, b) ==
    /\ Len(a) <= Len(b)
    /\ \A i \in 1..Len(a) : a[i] = b[i]

(* the frames of a result document, decoded, in array order *)
FramesOf(doc) == [i \in 1..Len(doc.frames) |-> b64decode(doc.frames[i])]

(* C1: once the maximum job duration (3600 s) has elapsed for a job whose
   success and failure locations were never populated, the poller has
   resolved TimedOut and makes no further check. *)
C1_PollerTimesOut ==
    \A s \in Sessions :
        (/\ elapsed[s] >= InvocationTimeoutSeconds
         /\ ~out_obj[s].present
         /\ ~fail_obj[s].present
         /\ stages[s] = <<"upload", "submit", "poll">>)
        => (pc[s] \notin PollingPcs /\ poll_ret[s] = "TimedOut")

(* C2: an iteration whose success check (head_object, then download_file)
   found the success location fetchable resolves Success and has not read the
   failure location, whether or not the failure location is populated. *)
C2_SuccessPrecedence ==
    \A s \in Sessions :
        (head_res[s] = "ok" /\ dl_res[s] = "ok")
        => (poll_ret[s] = "True" /\ fail_res[s] = "none")

(* C2 witness: Success was resolved although the failure location holds an
   artifact. *)
C2_Witness ==
    \E s \in Sessions :
        /\ poll_ret[s] = "True"
        /\ head_res[s] = "ok" /\ dl_res[s] = "ok"
        /\ fail_obj[s].present

(* C3: a success check that failed with an error other than "not found" has
   raised out of the poller in that iteration: the failure location was not
   read, the loop neither sleeps nor checks again, and neither Success nor
   Failure was resolved. *)
C3_HardErrorPropagates ==
    \A s \in Sessions :
        (head_res[s] \in HardErrors \/ dl_res[s] \in HardErrors)
        => (/\ poll_ret[s] = "raised"
            /\ failed_stage[s] = "poll"
            /\ fail_res[s] = "none"
            /\ pc[s] = "idle")

(* C3 witness: head_object was denied while the failure artifact existed, and
   the poller raised. *)
C3_Witness ==
    \E s \in Sessions :
        /\ head_res[s] = "403"
        /\ fail_obj[s].present
        /\ poll_ret[s] = "raised"

(* C4: with the success location not found, a fetchable failure artifact
   resolves Failure in the same iteration; with both not found the poller
   stays pending and sleeps, and the sleep of 15 s leads to the next check. *)
C4_FailureResolution ==
    /\ [](\A s \in Sessions :
            /\ fail_res[s] = "ok"
               => (/\ head_res[s] \in NotFoundCodes \/ dl_res[s] \in NotFoundCodes
                   /\ poll_ret[s] = "False"
                   /\ pc[s] = "idle")
            /\ fail_res[s] \in NotFoundCodes
               => (/\ head_res[s] \in NotFoundCodes \/ dl_res[s] \in NotFoundCodes
                   /\ poll_ret[s] = "none"
                   /\ pc[s] = "sleep"))
    /\ [][\A s \in Sessions :
            (pc[s] = "sleep" /\ pc'[s] # "sleep")
            => (/\ pc'[s] = "head"
                /\ poll_ret'[s] = "none"
                /\ elapsed[s] + POLL_DELAY <= RunHorizon
                   => elapsed'[s] = elapsed[s] + POLL_DELAY)]_vars

(* C4 witness: after at least one pending iteration and its sleep, the
   failure artifact was read and Failure resolved. *)
C4_Witness ==
    \E s \in Sessions :
        /\ elapsed[s] >= POLL_DELAY
        /\ head_res[s] = "404"
        /\ fail_res[s] = "ok"
        /\ poll_ret[s] = "False"

(* C5: when reading the failure artifact fails for a reason other than the
   artifact being absent, the poller resolves Failure instead of waiting on. *)
C5_UnreadableFailureArtifact ==
    \A s \in Sessions :
        fail_res[s] \in HardErrors
        => (poll_ret[s] = "False" /\ pc[s] \notin PollingPcs)

(* C6: the stages of a run are invoked in the order upload, submit, poll,
   decode, assemble, each only after the one before succeeded; a run whose
   stage raised or whose poller returned False invokes nothing further, in
   particular neither process_video_frames nor convert_frames_to_video, and
   shows no success message. *)
C6_PipelineOrder ==
    \A s \in Sessions :
        /\ IsPrefix(stages[s], PIPELINE)
        /\ pc[s] \in {"upload", "submit", "poll", "decode", "assemble"}
           => (/\ failed_stage[s] = "none"
               /\ IsPrefix(Append(stages[s], pc[s]), PIPELINE))
        /\ pc[s] \in PollingPcs => stages[s] = <<"upload", "submit", "poll">>
        /\ failed_stage[s] # "none"
           => (/\ pc[s] = "idle"
               /\ ~message[s]
               /\ IF failed_stage[s] = "build" THEN stages[s] = <<>>
                  ELSE /\ stages[s] # <<>>
                       /\ stages[s][Len(stages[s])] = failed_stage[s])
        /\ poll_ret[s] # "True"
           => (/\ ~message[s]
               /\ pc[s] \notin {"decode", "assemble"}
               /\ \A i \in 1..Len(stages[s]) :
                      stages[s][i] \notin {"decode", "assemble"})
        /\ message[s] => (stages[s] = PIPELINE /\ poll_ret[s] = "True")

(* C6 witness: the poller returned False after the request was staged and
   submitted, and the run ended there. *)
C6_Witness ==
    \E s \in Sessions :
        /\ poll_ret[s] = "False"
        /\ stages[s] = <<"upload", "submit", "poll">>
        /\ pc[s] = "idle"

(* C7: a run whose conditioning image, as currently supplied in the uploader,
   is missing or larger than MAX_FILE_SIZE ends with an error before anything
   is put to S3 or submitted. *)
C7_ValidationBeforeRemote ==
    \A s \in Sessions :
        (widget[s] = NoFile \/ widget[s].size > MAX_FILE_SIZE)
        => pc[s] = "idle"

(* C8: the frame files of a result document have unique names, and the glob
   lists the file of frame i in position i. *)
C8_FrameOrderPreserved ==
    \A s \in Sessions :
        Len(decoded[s].frames) > 0
        => \A files \in {frame_files(decoded[s])} :
             \A input \in {glob(files)} :
                /\ Len(input) = Len(decoded[s].frames)
                /\ \A i \in 1..Len(input) :
                      /\ input[i] = frame_name(i - 1)
                      /\ files[input[i]] = b64decode(decoded[s].frames[i])

(* C9: every run stages the request it built, its job reads that request, it
   decodes the document its own poller downloaded, and the encoder consumes
   every frame file as that run wrote it. *)
C9_NoInterference ==
    \A s \in Sessions :
        /\ data_uploaded[s] # NoPayload => data_uploaded[s] = data_built[s]
        /\ job_state[s] = "read" => job_input[s] = data_built[s]
        /\ Len(decoded[s].frames) > 0 => decoded[s] = downloaded[s]
        /\ message[s]
           => \A i \in 1..Len(decoded[s].frames) :
                 \E k \in 1..Len(video[s]) : video[s][k] = FramesOf(decoded[s])[i]

(* C10: the frames the encoder consumed for a finished run are exactly the
   frames of the result document that run decoded. *)
C10_NoStaleFrames ==
    \A s \in Sessions :
        message[s] => video[s] = FramesOf(decoded[s])

====
